---------------------------- MODULE Spec2Model ----------------------------
(* A model of examples/asio-feedback.rs: the controller (main), the       *)
(* capture callback (input_data_fn), the playback callback                *)
(* (output_data_fn) and the ring buffer they share.                       *)
EXTENDS Integers, Sequences, FiniteSets, TLC

(* ---------------------------------------------------------------------- *)
(* Bounds of the model.                                                   *)
(* ---------------------------------------------------------------------- *)

\* The most frames the backend delivers to (or requests from) one callback.
MaxBlockFrames == 2

\* The most samples the device captures in one session.
MaxCapturedSamples == 8

\* The most samples the device plays in one session.
MaxPlayedSamples == 8

\* The most stream errors the backend reports in one session.
MaxStreamErrors == 1

(* ---------------------------------------------------------------------- *)
(* Program constants.                                                     *)
(* ---------------------------------------------------------------------- *)

\* let channels = 2;
channels == 2

\* let latency_ms: f32 = 150.0;
latency_ms == 150

\* The divisor of latency_ms / 1_000.0.
MsPerSecond == 1000

\* type SampleFormat = i32; std::any::type_name::<SampleFormat>()
SampleFormatName == "i32"

\* The sample formats the device may report for its first supported config.
SampleFormats == {"i32", "f32"}

\* The sample rates the device may report for its default input config.
SampleRates == {5, 10, 14}

(* ---------------------------------------------------------------------- *)
(* Single-precision arithmetic of the latency computation.  An f32 value  *)
(* is [m, e], standing for m * 2^e with 0 <= m < 2^24.  Operands are      *)
(* positive and below 2^24, so every cast into f32 is exact; products are *)
(* rounded to nearest, ties to even, as the hardware does.                *)
(* ---------------------------------------------------------------------- *)

RECURSIVE Pow2(_)
Pow2(n) == IF n = 0 THEN 1 ELSE 2 * Pow2(n - 1)

RECURSIVE BitLen(_)
BitLen(n) == IF n = 0 THEN 0 ELSE 1 + BitLen(n \div 2)

\* Significands lie below 2^24; normalised ones are at least 2^23.
F32SigLimit == Pow2(24)

F32SigMin == Pow2(23)

\* Round the 25-bit quotient q (its last bit the round bit) with the given
\* sticky flag to a 24-bit significand, ties to even.
F32Round(q, sticky, e) ==
    LET m  == q \div 2
        up == (q % 2 = 1) /\ (sticky \/ m % 2 = 1)
        m1 == IF up THEN m + 1 ELSE m
    IN  IF m1 = F32SigLimit THEN [m |-> F32SigMin, e |-> e + 2]
                         ELSE [m |-> m1, e |-> e + 1]

\* The digit recurrence of a / b: q gains one bit per step until it has 25.
RECURSIVE F32DivLoop(_, _, _, _)
F32DivLoop(q, rem, b, e) ==
    IF q >= F32SigLimit
    THEN F32Round(q, rem # 0, e)
    ELSE LET bit == IF 2 * rem >= b THEN 1 ELSE 0
         IN  F32DivLoop((2 * q) + bit, (2 * rem) - (bit * b), b, e - 1)

\* a / b in f32, for integers 0 < a < 2^24, 0 < b < 2^24 with a \div b < 2^24.
F32Div(a, b) == F32DivLoop(a \div b, a % b, b, 0)

\* u32 as f32, for r < 2^24 (exact).
F32FromU32(r) == [m |-> r, e |-> 0]

\* The 48-bit product of two 24-bit significands as hi * 2^24 + lo, computed in
\* 12-bit limbs.
Mul48(a, b) ==
    LET ah == a \div 4096
        al == a % 4096
        bh == b \div 4096
        bl == b % 4096
        lowp == al * bl
        mid == (ah * bl) + (al * bh) + (lowp \div 4096)
    IN  [hi |-> (ah * bh) + (mid \div 4096),
         lo |-> ((mid % 4096) * 4096) + (lowp % 4096)]

\* x * y in f32.
F32Mul(x, y) ==
    LET p == Mul48(x.m, y.m)
        s == BitLen(p.hi)
    IN  IF s = 0
        THEN [m |-> p.lo, e |-> x.e + y.e]
        ELSE LET q    == (p.hi * Pow2(24 - s)) + (p.lo \div Pow2(s))
                 rem  == p.lo % Pow2(s)
                 half == Pow2(s - 1)
                 up   == rem > half \/ (rem = half /\ q % 2 = 1)
                 q1   == IF up THEN q + 1 ELSE q
             IN  IF q1 = F32SigLimit
                 THEN [m |-> F32SigMin, e |-> x.e + y.e + s + 1]
                 ELSE [m |-> q1, e |-> x.e + y.e + s]

\* f32 as usize: truncation toward zero (the operand is never negative here).
F32AsUsize(x) ==
    IF x.e >= 0 THEN x.m * Pow2(x.e)
    ELSE IF -x.e > 24 THEN 0
    ELSE x.m \div Pow2(-x.e)

\* latency_ms / 1_000.0
latency_ratio == F32Div(latency_ms, MsPerSecond)

\* let latency_frames = (latency_ms / 1_000.0) * config.sample_rate.0 as f32;
latency_frames(rate) == F32Mul(latency_ratio, F32FromU32(rate))

\* A faulty LatencySamples: the sample count, not the frame count, is what
\* is converted to an integer, and it is rounded to nearest.
LatencySamplesRounded(rate) ==
    ((2 * latency_ms * rate * channels) + MsPerSecond) \div (2 * MsPerSecond)

\* A faulty LatencySamples: the frame count is not multiplied by the channels.
LatencySamplesOfOneChannel(rate) == F32AsUsize(latency_frames(rate))

\* let latency_samples = latency_frames as usize * config.channels as usize;
LatencySamples(rate) == F32AsUsize(latency_frames(rate)) * channels

\* A faulty RingCapacity: no headroom beyond the pre-fill.
RingCapacityNoHeadroom(rate) == LatencySamples(rate)

\* A faulty RingCapacity: the pre-fill size is halved instead of doubled.
RingCapacityHalved(rate) == LatencySamples(rate) \div 2

\* HeapRb::<SampleFormat>::new(latency_samples * 2)
RingCapacity(rate) == LatencySamples(rate) * 2


(* ---------------------------------------------------------------------- *)
(* The ring buffer: a bounded FIFO queue whose push and pop are each one   *)
(* atomic step (producer.push / consumer.pop).                            *)
(* ---------------------------------------------------------------------- *)

\* A faulty Push: a full buffer drops its oldest sample to take the new one.
PushOverwrite(b, cap, s) ==
    IF Len(b) < cap THEN [buf |-> Append(b, s), ok |-> TRUE]
    ELSE IF cap = 0 THEN [buf |-> b, ok |-> FALSE]
    ELSE [buf |-> Append(Tail(b), s), ok |-> FALSE]

\* A faulty Push: the buffer grows when it is full.
PushGrows(b, cap, s) == [buf |-> Append(b, s), ok |-> TRUE]

\* A faulty Push: the sample is queued first instead of last.
PushFront(b, cap, s) ==
    IF Len(b) < cap THEN [buf |-> <<s>> \o b, ok |-> TRUE]
                    ELSE [buf |-> b, ok |-> FALSE]

\* producer.push(s): Ok(()) and s queued last, or Err(s) and nothing changed
\* when the buffer is full.
Push(b, cap, s) ==
    IF Len(b) < cap THEN [buf |-> Append(b, s), ok |-> TRUE]
                    ELSE [buf |-> b, ok |-> FALSE]

\* A faulty Pop: the newest sample is returned instead of the oldest.
PopNewest(b) ==
    IF Len(b) > 0
    THEN [buf |-> SubSeq(b, 1, Len(b) - 1), val |-> b[Len(b)], ok |-> TRUE]
    ELSE [buf |-> b, val |-> 0, ok |-> FALSE]

\* consumer.pop(): Some(oldest sample), or None when the buffer is empty.
Pop(b) ==
    IF Len(b) > 0 THEN [buf |-> Tail(b), val |-> Head(b), ok |-> TRUE]
                  ELSE [buf |-> b, val |-> 0, ok |-> FALSE]

(* ---------------------------------------------------------------------- *)
(* State.                                                                 *)
(* ---------------------------------------------------------------------- *)

VARIABLES
    sample_format,       \* supported_config.sample_format().to_string()
    sample_rate,         \* config.sample_rate.0
    block_frames,        \* frames per callback block, chosen by the backend
    pc,                  \* where main is
    ring,                \* "none" before HeapRb::new, "split" after ring.split()
    latency_samples,     \* let latency_samples
    capacity,            \* the ring's capacity
    buf,                 \* the ring's contents, oldest first
    prefill_i,           \* iterations of the pre-fill loop done
    in_stream,           \* input_stream: "none", "built", "playing", "dropped"
    out_stream,          \* output_stream: "none", "built", "playing", "dropped"
    in_pc,               \* the capture callback: "idle" or "loop"
    in_data,             \* data: &[SampleFormat] of the running capture callback
    in_idx,              \* samples of in_data processed
    output_fell_behind,  \* let mut output_fell_behind
    in_calls,            \* capture callback invocations begun
    out_pc,              \* the playback callback: "idle" or "loop"
    out_data,            \* data: &mut [SampleFormat] of the running playback callback
    out_writes,          \* how often each slot of out_data was written
    out_idx,             \* slots of out_data processed
    input_fell_behind,   \* let mut input_fell_behind
    out_calls,           \* playback callback invocations begun
    inLog,               \* history: every push attempt of the capture callback
    outLog,              \* history: every pop attempt of the playback callback
    overflow_reports,    \* "output stream fell behind" lines written to stderr
    underflow_reports,   \* "input stream fell behind" lines written to stderr
    stream_errors,       \* "an error occurred on stream" lines written to stderr
    room_made            \* history: a pop succeeded after a failed push of the
                         \* running capture callback

vars == <<sample_format, sample_rate, block_frames, pc, ring, latency_samples,
          capacity, buf, prefill_i, in_stream, out_stream, in_pc, in_data,
          in_idx, output_fell_behind, in_calls, out_pc, out_data, out_writes,
          out_idx, input_fell_behind, out_calls, inLog, outLog,
          overflow_reports, underflow_reports, stream_errors, room_made>>

mainVars == <<pc, ring, latency_samples, capacity, prefill_i>>
configVars == <<sample_format, sample_rate, block_frames>>
errVars == <<stream_errors>>
raceVars == <<room_made>>
inVars == <<in_pc, in_data, in_idx, output_fell_behind, in_calls, inLog,
            overflow_reports>>
outVars == <<out_pc, out_data, out_writes, out_idx, input_fell_behind,
             out_calls, outLog, underflow_reports>>

\* What an output slot holds before the callback writes it.
Stale == -1

\* Samples per callback block: block_frames interleaved frames.
BlockLen == block_frames * channels

\* The blocks the device may deliver: silence, or a ramp of fresh samples.
CapturedBlocks ==
    { [j \in 1..BlockLen |-> 0], [j \in 1..BlockLen |-> Len(inLog) + j] }

\* The state when main begins, on a device whose default sample rate is one
\* of rates.
InitFor(rates) ==
    /\ sample_format \in SampleFormats
    /\ sample_rate \in rates
    /\ block_frames \in 1..MaxBlockFrames
    /\ pc = "check_format"
    /\ ring = "none"
    /\ latency_samples = 0
    /\ capacity = 0
    /\ buf = <<>>
    /\ prefill_i = 0
    /\ in_stream = "none"
    /\ out_stream = "none"
    /\ in_pc = "idle"
    /\ in_data = <<>>
    /\ in_idx = 0
    /\ output_fell_behind = FALSE
    /\ in_calls = 0
    /\ out_pc = "idle"
    /\ out_data = <<>>
    /\ out_writes = <<>>
    /\ out_idx = 0
    /\ input_fell_behind = FALSE
    /\ out_calls = 0
    /\ inLog = <<>>
    /\ outLog = <<>>
    /\ overflow_reports = 0
    /\ underflow_reports = 0
    /\ stream_errors = 0
    /\ room_made = FALSE

Init == InitFor(SampleRates)

(* ---------------------------------------------------------------------- *)
(* main.                                                                  *)
(* ---------------------------------------------------------------------- *)

\* A faulty CheckSampleFormat: the assertion is missing.
CheckSampleFormatSkipped ==
    /\ pc = "check_format"
    /\ pc' = "config"
    /\ UNCHANGED <<ring, latency_samples, capacity, prefill_i, buf, in_stream,
                   out_stream>>
    /\ UNCHANGED <<configVars, errVars, raceVars, inVars, outVars>>

\* assert_eq!(supported_config.sample_format().to_string(),
\*            std::any::type_name::<SampleFormat>());
CheckSampleFormat ==
    /\ pc = "check_format"
    /\ pc' = IF sample_format = SampleFormatName THEN "config" ELSE "panicked"
    /\ UNCHANGED <<ring, latency_samples, capacity, prefill_i, buf, in_stream,
                   out_stream>>
    /\ UNCHANGED <<configVars, errVars, raceVars, inVars, outVars>>

\* let config_default: cpal::StreamConfig = asio_device.default_input_config()?.into();
DefaultInputConfig ==
    /\ pc = "config"
    /\ \E ok \in BOOLEAN : pc' = IF ok THEN "sizing" ELSE "failed"
    /\ UNCHANGED <<ring, latency_samples, capacity, prefill_i, buf, in_stream,
                   out_stream>>
    /\ UNCHANGED <<configVars, errVars, raceVars, inVars, outVars>>

\* The latency computation, HeapRb::new and ring.split().
\* The ringbuf crate is not part of the source: on a capacity of zero
\* HeapRb::new either panics or builds a ring that holds nothing.
CreateRing ==
    /\ pc = "sizing"
    /\ latency_samples' = LatencySamples(sample_rate)
    /\ capacity' = RingCapacity(sample_rate)
    /\ \E built \in IF RingCapacity(sample_rate) = 0 THEN BOOLEAN ELSE {TRUE} :
         /\ ring' = IF built THEN "split" ELSE "none"
         /\ pc' = IF built THEN "prefill" ELSE "panicked"
    /\ buf' = <<>>
    /\ prefill_i' = 0
    /\ UNCHANGED <<in_stream, out_stream, configVars, errVars, raceVars, inVars,
                   outVars>>

\* A faulty Prefill: the loop stops one sample early.
PrefillOneShort ==
    /\ pc = "prefill"
    /\ IF prefill_i + 1 < latency_samples
       THEN /\ buf' = Push(buf, capacity, 0).buf
            /\ prefill_i' = prefill_i + 1
            /\ pc' = pc
       ELSE /\ pc' = "build_input"
            /\ UNCHANGED <<buf, prefill_i>>
    /\ UNCHANGED <<ring, latency_samples, capacity, in_stream, out_stream>>
    /\ UNCHANGED <<sample_format, sample_rate, block_frames, stream_errors,
                   room_made>>
    /\ UNCHANGED <<in_pc, in_data, in_idx, output_fell_behind, in_calls, inLog,
                   overflow_reports>>
    /\ UNCHANGED <<out_pc, out_data, out_writes, out_idx, input_fell_behind,
                   out_calls, outLog, underflow_reports>>

\* for _ in 0..latency_samples { producer.push(0).unwrap(); }
Prefill ==
    /\ pc = "prefill"
    /\ IF prefill_i < latency_samples
       THEN LET r == Push(buf, capacity, 0)
            IN  IF r.ok
                THEN /\ buf' = r.buf
                     /\ prefill_i' = prefill_i + 1
                     /\ pc' = pc
                ELSE /\ pc' = "panicked"
                     /\ UNCHANGED <<buf, prefill_i>>
       ELSE /\ pc' = "build_input"
            /\ UNCHANGED <<buf, prefill_i>>
    /\ UNCHANGED <<ring, latency_samples, capacity, in_stream, out_stream>>
    /\ UNCHANGED <<configVars, errVars, raceVars, inVars, outVars>>

\* let input_stream = asio_device.build_input_stream(...)?;
BuildInputStream ==
    /\ pc = "build_input"
    /\ \E ok \in BOOLEAN :
         IF ok THEN /\ in_stream' = "built"
                    /\ pc' = "build_output"
               ELSE /\ in_stream' = in_stream
                    /\ pc' = "failed"
    /\ UNCHANGED <<ring, latency_samples, capacity, prefill_i, buf, out_stream>>
    /\ UNCHANGED <<configVars, errVars, raceVars, inVars, outVars>>

\* let output_stream = asio_device.build_output_stream(...)?;
\* On Err main returns and input_stream, not yet played, is dropped.
BuildOutputStream ==
    /\ pc = "build_output"
    /\ \E ok \in BOOLEAN :
         IF ok THEN /\ out_stream' = "built"
                    /\ in_stream' = in_stream
                    /\ pc' = "play_input"
               ELSE /\ out_stream' = out_stream
                    /\ in_stream' = "dropped"
                    /\ pc' = "failed"
    /\ UNCHANGED <<ring, latency_samples, capacity, prefill_i, buf>>
    /\ UNCHANGED <<configVars, errVars, raceVars, inVars, outVars>>

\* input_stream.play()?;
\* On Err main returns and both streams, neither playing, are dropped.
PlayInput ==
    /\ pc = "play_input"
    /\ \E ok \in BOOLEAN :
         IF ok THEN /\ in_stream' = "playing"
                    /\ out_stream' = out_stream
                    /\ pc' = "play_output"
               ELSE /\ in_stream' = "dropped"
                    /\ out_stream' = "dropped"
                    /\ pc' = "failed"
    /\ UNCHANGED <<ring, latency_samples, capacity, prefill_i, buf>>
    /\ UNCHANGED <<configVars, errVars, raceVars, inVars, outVars>>

\* A faulty PlayOutput: on Err main is done at once and the input stream,
\* which is playing, is never dropped.
PlayOutputLeavesInput ==
    /\ pc = "play_output"
    /\ \E ok \in BOOLEAN :
         IF ok THEN /\ out_stream' = "playing"
                    /\ pc' = "sleep"
               ELSE /\ out_stream' = "dropped"
                    /\ pc' = "failed"
    /\ UNCHANGED <<ring, latency_samples, capacity, prefill_i, buf, in_stream>>
    /\ UNCHANGED <<configVars, errVars, raceVars, inVars, outVars>>

\* output_stream.play()?;
\* On Err main returns: output_stream is dropped first, then input_stream,
\* which is playing.
PlayOutput ==
    /\ pc = "play_output"
    /\ \E ok \in BOOLEAN :
         IF ok THEN /\ out_stream' = "playing"
                    /\ pc' = "sleep"
               ELSE /\ out_stream' = "dropped"
                    /\ pc' = "unwind"
    /\ UNCHANGED <<ring, latency_samples, capacity, prefill_i, buf, in_stream>>
    /\ UNCHANGED <<configVars, errVars, raceVars, inVars, outVars>>

\* A faulty Sleep: after the run main pushes one more zero into the ring.
SleepThenPush ==
    /\ pc = "sleep"
    /\ pc' = "drop_input"
    /\ buf' = Push(buf, capacity, 0).buf
    /\ UNCHANGED <<ring, latency_samples, capacity, prefill_i, in_stream,
                   out_stream>>
    /\ UNCHANGED <<configVars, errVars, raceVars, inVars, outVars>>

\* A faulty Sleep: after the run the streams are built again on the same ring.
SleepThenRebuild ==
    /\ pc = "sleep"
    /\ pc' = "build_input"
    /\ UNCHANGED <<ring, latency_samples, capacity, prefill_i, buf, in_stream,
                   out_stream>>
    /\ UNCHANGED <<configVars, errVars, raceVars, inVars, outVars>>

\* std::thread::sleep(Duration::from_secs(3));
Sleep ==
    /\ pc = "sleep"
    /\ pc' = "drop_input"
    /\ UNCHANGED <<ring, latency_samples, capacity, prefill_i, buf, in_stream,
                   out_stream>>
    /\ UNCHANGED <<configVars, errVars, raceVars, inVars, outVars>>

\* Dropping a stream returns once no invocation of its callback is running;
\* the callback is not invoked afterwards.
StreamDropped(cb_pc) == cb_pc = "idle"

\* A faulty DropInputStream: the handle is leaked, the stream keeps playing.
DropInputStreamLeaked ==
    /\ pc \in {"drop_input", "unwind"}
    /\ in_stream' = in_stream
    /\ pc' = IF pc = "drop_input" THEN "drop_output" ELSE "failed"
    /\ UNCHANGED <<ring, latency_samples, capacity, prefill_i, buf, out_stream>>
    /\ UNCHANGED <<configVars, errVars, raceVars, inVars, outVars>>

\* drop(input_stream); and the drop of input_stream when main returns Err
\* from output_stream.play()?.
DropInputStream ==
    /\ pc \in {"drop_input", "unwind"}
    /\ StreamDropped(in_pc)
    /\ in_stream' = "dropped"
    /\ pc' = IF pc = "drop_input" THEN "drop_output" ELSE "failed"
    /\ UNCHANGED <<ring, latency_samples, capacity, prefill_i, buf, out_stream>>
    /\ UNCHANGED <<configVars, errVars, raceVars, inVars, outVars>>

\* A faulty DropOutputStream: the stream is stopped at once, whatever its
\* callback is doing.
DropOutputStreamAtOnce ==
    /\ pc = "drop_output"
    /\ out_stream' = "dropped"
    /\ pc' = "done"
    /\ UNCHANGED <<ring, latency_samples, capacity, prefill_i, buf, in_stream>>
    /\ UNCHANGED <<configVars, errVars, raceVars, inVars, outVars>>

\* drop(output_stream); println!("Done!"); Ok(())
DropOutputStream ==
    /\ pc = "drop_output"
    /\ StreamDropped(out_pc)
    /\ out_stream' = "dropped"
    /\ pc' = "done"
    /\ UNCHANGED <<ring, latency_samples, capacity, prefill_i, buf, in_stream>>
    /\ UNCHANGED <<configVars, errVars, raceVars, inVars, outVars>>

(* ---------------------------------------------------------------------- *)
(* input_data_fn, the capture callback.                                   *)
(* ---------------------------------------------------------------------- *)

\* The backend invokes input_data_fn with a block of captured samples.
InputCallbackBegin ==
    /\ in_stream = "playing"
    /\ in_pc = "idle"
    /\ Len(inLog) + BlockLen <= MaxCapturedSamples
    /\ \E data \in CapturedBlocks : in_data' = data
    /\ in_idx' = 0
    /\ output_fell_behind' = FALSE
    /\ in_pc' = "loop"
    /\ in_calls' = in_calls + 1
    /\ room_made' = FALSE
    /\ UNCHANGED <<inLog, overflow_reports, buf, in_stream, out_stream>>
    /\ UNCHANGED <<configVars, errVars, mainVars, outVars>>

\* A faulty InputPush: every failed push writes the diagnostic at once.
InputPushReportsEachFailure ==
    /\ in_pc = "loop"
    /\ in_idx < Len(in_data)
    /\ LET s == in_data[in_idx + 1]
           r == Push(buf, capacity, s)
       IN  /\ buf' = r.buf
           /\ output_fell_behind' = (output_fell_behind \/ ~r.ok)
           /\ inLog' = Append(inLog, [s |-> s, ok |-> r.ok])
           /\ overflow_reports' = overflow_reports + (IF r.ok THEN 0 ELSE 1)
    /\ in_idx' = in_idx + 1
    /\ UNCHANGED <<in_pc, in_data, in_calls, in_stream, out_stream>>
    /\ UNCHANGED <<configVars, errVars, raceVars, mainVars, outVars>>

\* if producer.push(sample).is_err() { output_fell_behind = true; }
InputPush ==
    /\ in_pc = "loop"
    /\ in_idx < Len(in_data)
    /\ LET s == in_data[in_idx + 1]
           r == Push(buf, capacity, s)
       IN  /\ buf' = r.buf
           /\ output_fell_behind' = (output_fell_behind \/ ~r.ok)
           /\ inLog' = Append(inLog, [s |-> s, ok |-> r.ok])
    /\ in_idx' = in_idx + 1
    /\ UNCHANGED <<in_pc, in_data, in_calls, overflow_reports, in_stream,
                   out_stream>>
    /\ UNCHANGED <<configVars, errVars, raceVars, mainVars, outVars>>

\* A faulty InputCallbackEnd: the handler also returns as soon as a push has
\* failed, leaving the rest of the block untried.
InputCallbackEndOnOverflow ==
    /\ in_pc = "loop"
    /\ in_idx = Len(in_data) \/ output_fell_behind
    /\ overflow_reports' = overflow_reports + (IF output_fell_behind THEN 1 ELSE 0)
    /\ in_pc' = "idle"
    /\ in_data' = <<>>
    /\ in_idx' = 0
    /\ output_fell_behind' = FALSE
    /\ room_made' = FALSE
    /\ UNCHANGED <<in_calls, inLog, buf, in_stream, out_stream>>
    /\ UNCHANGED <<configVars, errVars, mainVars, outVars>>

\* if output_fell_behind { eprintln!("output stream fell behind: ..."); }
InputCallbackEnd ==
    /\ in_pc = "loop"
    /\ in_idx = Len(in_data)
    /\ overflow_reports' = overflow_reports + (IF output_fell_behind THEN 1 ELSE 0)
    /\ in_pc' = "idle"
    /\ in_data' = <<>>
    /\ in_idx' = 0
    /\ output_fell_behind' = FALSE
    /\ room_made' = FALSE
    /\ UNCHANGED <<in_calls, inLog, buf, in_stream, out_stream>>
    /\ UNCHANGED <<configVars, errVars, mainVars, outVars>>

(* ---------------------------------------------------------------------- *)
(* output_data_fn, the playback callback.                                 *)
(* ---------------------------------------------------------------------- *)

\* The backend invokes output_data_fn with a block of slots to fill.
OutputCallbackBegin ==
    /\ out_stream = "playing"
    /\ out_pc = "idle"
    /\ Len(outLog) + BlockLen <= MaxPlayedSamples
    /\ out_data' = [j \in 1..BlockLen |-> Stale]
    /\ out_writes' = [j \in 1..BlockLen |-> 0]
    /\ out_idx' = 0
    /\ input_fell_behind' = FALSE
    /\ out_pc' = "loop"
    /\ out_calls' = out_calls + 1
    /\ UNCHANGED <<outLog, underflow_reports, buf, in_stream, out_stream>>
    /\ UNCHANGED <<configVars, errVars, raceVars, mainVars, inVars>>

\* A faulty OutputPop: a failed pop leaves its slot as it was.
OutputPopSkipsSilence ==
    /\ out_pc = "loop"
    /\ out_idx < Len(out_data)
    /\ LET r == Pop(buf)
       IN  /\ buf' = r.buf
           /\ input_fell_behind' = (input_fell_behind \/ ~r.ok)
           /\ out_data' = IF r.ok THEN [out_data EXCEPT ![out_idx + 1] = r.val]
                                  ELSE out_data
           /\ out_writes' = IF r.ok THEN [out_writes EXCEPT ![out_idx + 1] = @ + 1]
                                    ELSE out_writes
           /\ outLog' = Append(outLog, [s |-> out_data'[out_idx + 1], ok |-> r.ok])
    /\ out_idx' = out_idx + 1
    /\ room_made' = (room_made \/ (output_fell_behind /\ Pop(buf).ok))
    /\ UNCHANGED <<out_pc, out_calls, underflow_reports, in_stream, out_stream>>
    /\ UNCHANGED <<configVars, errVars, mainVars, inVars>>

\* *sample = match consumer.pop() { Some(s) => s,
\*                                  None => { input_fell_behind = true; 0 } };
OutputPop ==
    /\ out_pc = "loop"
    /\ out_idx < Len(out_data)
    /\ LET r == Pop(buf)
           w == IF r.ok THEN r.val ELSE 0
       IN  /\ buf' = r.buf
           /\ input_fell_behind' = (input_fell_behind \/ ~r.ok)
           /\ out_data' = [out_data EXCEPT ![out_idx + 1] = w]
           /\ out_writes' = [out_writes EXCEPT ![out_idx + 1] = @ + 1]
           /\ outLog' = Append(outLog, [s |-> w, ok |-> r.ok])
    /\ out_idx' = out_idx + 1
    /\ room_made' = (room_made \/ (output_fell_behind /\ Pop(buf).ok))
    /\ UNCHANGED <<out_pc, out_calls, underflow_reports, in_stream, out_stream>>
    /\ UNCHANGED <<configVars, errVars, mainVars, inVars>>

\* if input_fell_behind { eprintln!("input stream fell behind: ..."); }
OutputCallbackEnd ==
    /\ out_pc = "loop"
    /\ out_idx = Len(out_data)
    /\ underflow_reports' = underflow_reports + (IF input_fell_behind THEN 1 ELSE 0)
    /\ out_pc' = "idle"
    /\ out_data' = <<>>
    /\ out_writes' = <<>>
    /\ out_idx' = 0
    /\ input_fell_behind' = FALSE
    /\ UNCHANGED <<out_calls, outLog, buf, in_stream, out_stream>>
    /\ UNCHANGED <<configVars, errVars, raceVars, mainVars, inVars>>

(* ---------------------------------------------------------------------- *)
(* err_fn, the error callback of both streams.                            *)
(* ---------------------------------------------------------------------- *)

\* A faulty ErrFn: the error callback panics and takes the process down.
ErrFnPanics ==
    /\ \/ in_stream \in {"built", "playing"}
       \/ out_stream \in {"built", "playing"}
    /\ stream_errors < MaxStreamErrors
    /\ stream_errors' = stream_errors + 1
    /\ pc' = "panicked"
    /\ UNCHANGED <<ring, latency_samples, capacity, prefill_i, buf, in_stream,
                   out_stream>>
    /\ UNCHANGED <<configVars, raceVars, inVars, outVars>>

\* fn err_fn(err: cpal::StreamError) {
\*     eprintln!("an error occurred on stream: {}", err); }
\* The backend reports an error of a stream that exists, at any time.
ErrFn ==
    /\ \/ in_stream \in {"built", "playing"}
       \/ out_stream \in {"built", "playing"}
    /\ stream_errors < MaxStreamErrors
    /\ stream_errors' = stream_errors + 1
    /\ UNCHANGED <<buf, in_stream, out_stream>>
    /\ UNCHANGED <<configVars, raceVars, mainVars, inVars, outVars>>

(* ---------------------------------------------------------------------- *)
(* The program.                                                           *)
(* ---------------------------------------------------------------------- *)

\* The steps of main.
MainStep ==
    \/ CheckSampleFormat
    \/ DefaultInputConfig
    \/ CreateRing
    \/ Prefill
    \/ BuildInputStream
    \/ BuildOutputStream
    \/ PlayInput
    \/ PlayOutput
    \/ Sleep
    \/ DropInputStream
    \/ DropOutputStream

\* The steps inside a running callback.
CallbackStep ==
    \/ InputPush
    \/ InputCallbackEnd
    \/ OutputPop
    \/ OutputCallbackEnd

\* The backend invokes either callback whenever its stream is playing.
Next ==
    \/ MainStep
    \/ CallbackStep
    \/ InputCallbackBegin
    \/ OutputCallbackBegin
    \/ ErrFn

Spec == Init /\ [][Next]_vars

\* What keeps the program going: the sleep of main ends; a running callback
\* goes on to its next sample and returns, since push and pop never block;
\* and a drop of a stream gets its turn between two invocations of the
\* stream's callback.
Fairness ==
    /\ WF_vars(Sleep)
    /\ SF_vars(DropInputStream)
    /\ SF_vars(DropOutputStream)
    /\ WF_vars(InputPush \/ InputCallbackEnd)
    /\ WF_vars(OutputPop \/ OutputCallbackEnd)

\* The sample rates of the sessions whose progress is followed: one that makes
\* a ring of capacity zero, where every push and every pop fails, and one
\* that makes a ring of eight samples.
LiveSampleRates == {5, 14}

SpecLive == InitFor(LiveSampleRates) /\ [][Next]_vars /\ Fairness

(* ---------------------------------------------------------------------- *)
(* main alone, on a device whose default sample rate is 48000 Hz, with    *)
(* streams whose callbacks the backend never invokes: the sizing and the  *)
(* pre-fill at the size of a real device.                                 *)
(* ---------------------------------------------------------------------- *)

ExampleSampleRates == {48000}

SpecSizing == InitFor(ExampleSampleRates) /\ [][MainStep]_vars

(* ---------------------------------------------------------------------- *)
(* The same program on a device whose capture and playback run at the     *)
(* same rate: in every period the backend invokes each callback once, in  *)
(* either order and possibly overlapping, so invocation k+1 of one        *)
(* callback begins only after invocation k of the other has returned.     *)
(* ---------------------------------------------------------------------- *)

InputCallsDone == in_calls - (IF in_pc = "loop" THEN 1 ELSE 0)

OutputCallsDone == out_calls - (IF out_pc = "loop" THEN 1 ELSE 0)

InputCallbackBeginSameRate ==
    /\ in_calls <= OutputCallsDone
    /\ InputCallbackBegin

OutputCallbackBeginSameRate ==
    /\ out_calls <= InputCallsDone
    /\ OutputCallbackBegin

NextSameRate ==
    \/ MainStep
    \/ CallbackStep
    \/ InputCallbackBeginSameRate
    \/ OutputCallbackBeginSameRate

SpecSameRate == Init /\ [][NextSameRate]_vars


(* ---------------------------------------------------------------------- *)
(* Helpers of the properties.                                             *)
(* ---------------------------------------------------------------------- *)

Zeros(n) == [i \in 1..n |-> 0]

IsPrefix(a, b) == Len(a) <= Len(b) /\ SubSeq(b, 1, Len(a)) = a

Accepted(e) == e.ok

\* The samples of the successful attempts of a log, in order.
Values(log) ==
    LET kept == SelectSeq(log, Accepted)
    IN  [i \in 1..Len(kept) |-> kept[i].s]

\* The captured samples that were pushed successfully, in push order.
Pushed == Values(inLog)

\* The values returned by successful pops, in pop order.
Popped == Values(outLog)

NoFailure(log) == \A i \in 1..Len(log) : log[i].ok

\* The buffer after pushing the samples of xs in order.
RECURSIVE PushAll(_, _, _)
PushAll(b, cap, xs) ==
    IF xs = <<>> THEN b ELSE PushAll(Push(b, cap, Head(xs)).buf, cap, Tail(xs))

\* The values n pops return, in order (a failed pop returns none).
RECURSIVE PopN(_, _)
PopN(b, n) ==
    IF n = 0 THEN <<>>
    ELSE LET r == Pop(b)
         IN  (IF r.ok THEN <<r.val>> ELSE <<>>) \o PopN(r.buf, n - 1)

\* Test sequences of n samples: a rising and a falling ramp.
TestSequences(n) == { [j \in 1..n |-> 100 + j], [j \in 1..n |-> 200 - j] }

(* ---------------------------------------------------------------------- *)
(* C1                                                                     *)
(* ---------------------------------------------------------------------- *)

\* C1: under every interleaving the values returned by successful pops are a
\* prefix of latency_samples zeros followed by the successfully pushed
\* captured samples in push order; and while no push and no pop has failed,
\* output sample k is zero for k <= latency_samples and is captured sample
\* k - latency_samples after that (counting from 1).
C1_FifoWithLatency ==
    /\ IsPrefix(Popped, Zeros(latency_samples) \o Pushed)
    /\ (NoFailure(inLog) /\ NoFailure(outLog)) =>
         \A k \in 1..Len(outLog) :
            outLog[k].s = IF k <= latency_samples
                          THEN 0
                          ELSE inLog[k - latency_samples].s

\* A run without failure in which a captured, non-zero sample has been played
\* after the silence.
C1_Witness ==
    /\ NoFailure(inLog) /\ NoFailure(outLog)
    /\ Len(outLog) >= latency_samples + 2
    /\ outLog[latency_samples + 1].s > 0
    /\ outLog[latency_samples + 2].s > outLog[latency_samples + 1].s

(* ---------------------------------------------------------------------- *)
(* C2                                                                     *)
(* ---------------------------------------------------------------------- *)

PushAttempted == Len(inLog') = Len(inLog) + 1

\* C3: a push attempted while the buffer holds capacity samples fails, the
\* sample of that push is dropped, the buffered samples and their order stay
\* as they were, and the push does not block: the handler's step is enabled
\* also when the buffer is full.
C3_OverflowDropsNewest ==
    /\ [][(PushAttempted /\ Len(buf) = capacity) =>
            /\ buf' = buf
            /\ ~inLog'[Len(inLog')].ok
            /\ inLog'[Len(inLog')].s = in_data[in_idx + 1]
            /\ output_fell_behind'
            /\ in_idx' = in_idx + 1]_vars
    /\ []((in_pc = "loop" /\ in_idx < Len(in_data)) => ENABLED InputPush)

\* A push has just failed on a full buffer.
C3_Witness ==
    /\ capacity > 0
    /\ Len(buf) = capacity
    /\ Len(inLog) > 0
    /\ ~inLog[Len(inLog)].ok
    /\ inLog[Len(inLog)].s > 0

(* ---------------------------------------------------------------------- *)
(* C4                                                                     *)
(* ---------------------------------------------------------------------- *)

\* A step in which the playback callback attempts a pop.
PopAttempted == Len(outLog') = Len(outLog) + 1

\* C4: a pop on an empty buffer returns no sample, leaves the buffer empty
\* and does not block; the handler writes a zero into the slot of a failed
\* pop and the popped sample into the slot of a successful one; each step
\* writes the next slot and no other, so that every slot of the block has
\* been written exactly once when the loop ends.
C4_UnderflowWritesSilence ==
    /\ [][PopAttempted =>
            /\ out_idx' = out_idx + 1
            /\ IF buf = <<>>
               THEN /\ buf' = <<>>
                    /\ ~outLog'[Len(outLog')].ok
                    /\ out_data'[out_idx'] = 0
                    /\ input_fell_behind'
               ELSE /\ buf' = Tail(buf)
                    /\ outLog'[Len(outLog')].ok
                    /\ out_data'[out_idx'] = Head(buf)
            /\ outLog'[Len(outLog')].s = out_data'[out_idx']
            /\ \A j \in 1..Len(out_data) :
                  /\ j # out_idx' => out_data'[j] = out_data[j]
                  /\ out_writes'[j] = out_writes[j] + (IF j = out_idx' THEN 1 ELSE 0)]_vars
    /\ [](out_pc = "loop" =>
            /\ Len(out_data) = BlockLen
            /\ \A j \in 1..Len(out_data) :
                  out_writes[j] = IF j <= out_idx THEN 1 ELSE 0
            /\ out_idx < Len(out_data) => ENABLED OutputPop)

\* A block whose loop has ended, filled partly from the buffer and partly
\* with silence for failed pops.
C4_Witness ==
    /\ out_pc = "loop"
    /\ out_idx = Len(out_data)
    /\ input_fell_behind
    /\ outLog[Len(outLog)].ok = FALSE
    /\ \E j \in 1..Len(out_data) : out_data[j] > 0

(* ---------------------------------------------------------------------- *)
(* C5                                                                     *)
(* ---------------------------------------------------------------------- *)

\* main has left the pre-fill loop normally.
PrefillDone ==
    pc \in {"build_input", "build_output", "play_input", "play_output",
            "sleep", "drop_input", "drop_output", "done", "unwind", "failed"}
    /\ ring = "split"

\* C5: after construction and pre-fill, before any callback has pushed or
\* popped, the buffer holds exactly latency_samples samples, all zero, and
\* has capacity - latency_samples free slots.
C5_PrefilledWithSilence ==
    (PrefillDone /\ inLog = <<>> /\ outLog = <<>>) =>
       /\ buf = Zeros(latency_samples)
       /\ Len(buf) = latency_samples
       /\ capacity - Len(buf) = capacity - latency_samples
       /\ capacity - Len(buf) = latency_samples

\* Both streams play and no callback has touched the buffer yet.
C5_Witness ==
    /\ pc = "sleep"
    /\ inLog = <<>> /\ outLog = <<>>
    /\ Len(buf) = 4


(* ---------------------------------------------------------------------- *)
(* C6                                                                     *)
(* ---------------------------------------------------------------------- *)

\* (latency_ms / 1000) * rate * channels rounded to the nearest integer, in
\* exact arithmetic.
RoundedSampleCount(rate) ==
    ((2 * latency_ms * rate * channels) + MsPerSecond) \div (2 * MsPerSecond)

\* (latency_ms / 1000) * rate truncated to whole frames, in exact arithmetic.
WholeFrames(rate) == (latency_ms * rate) \div MsPerSecond

\* latency_samples as the program computes it, for each sample rate.
ComputedSamples == [r \in SampleRates |-> F32AsUsize(latency_frames(r)) * channels]

\* C6 as stated: latency_samples is (latency_ms / 1000) * sample_rate *
\* channels rounded to the nearest integer and the capacity is twice that.
C6_SizingAsStated ==
    ring = "split" =>
       /\ latency_samples = RoundedSampleCount(sample_rate)
       /\ capacity = 2 * latency_samples

\* C6: latency_samples is the single-precision product (latency_ms / 1000) *
\* sample_rate truncated toward zero to whole frames, times channels (for
\* the sample rates here the exact floor of latency_ms * sample_rate /
\* 1000, times channels), and the capacity is exactly twice that.
C6_Sizing ==
    ring = "split" =>
       /\ latency_samples = ComputedSamples[sample_rate]
       /\ latency_samples = WholeFrames(sample_rate) * channels
       /\ latency_samples % channels = 0
       /\ capacity = 2 * latency_samples

\* The ring sized for a rate whose latency is not a whole number of frames.
C6_Witness ==
    /\ ring = "split"
    /\ (latency_ms * sample_rate) % MsPerSecond # 0
    /\ latency_samples = 2
    /\ capacity = 4

(* ---------------------------------------------------------------------- *)
(* C7                                                                     *)
(* ---------------------------------------------------------------------- *)

\* Capture has delivered at least latency_samples samples.
WarmedUp == ring = "split" /\ pc # "prefill" /\ Len(inLog) >= latency_samples

NoNewDiagnostic ==
    /\ overflow_reports' = overflow_reports
    /\ underflow_reports' = underflow_reports

\* C7 as stated: on a device whose callbacks run at the same rate with the
\* same block size, once capture has delivered latency_samples samples the
\* occupancy stays within [0, capacity] and no diagnostic is emitted again.
C7_SteadyStateAsStated ==
    /\ [](Len(buf) >= 0 /\ Len(buf) <= capacity)
    /\ [][WarmedUp => NoNewDiagnostic]_vars

\* C7: the same, for blocks no larger than the latency: when BlockLen <=
\* latency_samples, the occupancy stays within latency_samples +- BlockLen,
\* hence within [0, capacity], and no overflow or underflow diagnostic is
\* emitted once capture has delivered latency_samples samples.
C7_SteadyState ==
    /\ [](Len(buf) >= 0 /\ Len(buf) <= capacity)
    /\ []((PrefillDone /\ BlockLen <= latency_samples) =>
            /\ Len(buf) >= latency_samples - BlockLen
            /\ Len(buf) <= latency_samples + BlockLen)
    /\ [][(WarmedUp /\ BlockLen <= latency_samples) => NoNewDiagnostic]_vars

\* Two periods have run after warm-up with blocks as large as the latency
\* and nothing was reported.
C7_Witness ==
    /\ BlockLen = latency_samples
    /\ in_calls >= 2 /\ out_calls >= 2
    /\ in_pc = "idle" /\ out_pc = "idle"
    /\ Len(inLog) >= 2 * latency_samples
    /\ overflow_reports = 0 /\ underflow_reports = 0


(* ---------------------------------------------------------------------- *)
(* C8                                                                     *)
(* ---------------------------------------------------------------------- *)

\* main has dropped both stream handles at the end of the run.
Stopped == pc = "done"

\* C8: once the transition to Stopped has completed, both streams are
\* dropped and no callback is running, and no later step begins or continues
\* a callback, pushes or pops.
C8_NoCallbackAfterStop ==
    /\ [](Stopped =>
            /\ in_stream = "dropped" /\ out_stream = "dropped"
            /\ in_pc = "idle" /\ out_pc = "idle")
    /\ [][Stopped =>
            /\ buf' = buf
            /\ inLog' = inLog /\ outLog' = outLog
            /\ in_calls' = in_calls /\ out_calls' = out_calls
            /\ in_pc' = "idle" /\ out_pc' = "idle"]_vars

\* The session has stopped after both callbacks ran.
C8_Witness ==
    /\ Stopped
    /\ in_calls >= 2 /\ out_calls >= 2
    /\ Len(Pushed) > 0 /\ Len(Popped) > 0

(* ---------------------------------------------------------------------- *)
(* C9                                                                     *)
(* ---------------------------------------------------------------------- *)

\* C9: when the device's sample format is not the expected one, main gets
\* no further than the assertion: no ring is made or moved into a callback,
\* no stream is built or playing, and no callback ever runs.
C9_MismatchedFormatFailsFast ==
    sample_format # SampleFormatName =>
       /\ pc \in {"check_format", "panicked"}
       /\ ring = "none"
       /\ in_stream = "none" /\ out_stream = "none"
       /\ in_pc = "idle" /\ out_pc = "idle"
       /\ in_calls = 0 /\ out_calls = 0
       /\ inLog = <<>> /\ outLog = <<>>

\* The assertion has failed.
C9_Witness == sample_format # SampleFormatName /\ pc = "panicked"

(* ---------------------------------------------------------------------- *)
(* C10                                                                    *)
(* ---------------------------------------------------------------------- *)

\* The controller's state: Configured until both streams play, Started while
\* main sleeps and tears down, Stopped at the end; Failed on an error exit.
SessionState ==
    IF pc = "done" THEN "Stopped"
    ELSE IF pc \in {"sleep", "drop_input", "drop_output"} THEN "Started"
    ELSE IF pc \in {"panicked", "failed", "unwind"} THEN "Failed"
    ELSE "Configured"

StreamRank(s) ==
    CASE s = "none" -> 0 [] s = "built" -> 1 [] s = "playing" -> 2
      [] s = "dropped" -> 3

\* C10: the controller moves only Configured -> Started -> Stopped (or from
\* Configured to a failed exit); each stream goes none -> built -> playing
\* -> dropped and never back, so nothing is paused, resumed or started
\* again; Started means both streams were started; and the ring, once made,
\* stays the one ring of the one pair of streams.
C10_SessionMovesForward ==
    /\ [][/\ <<SessionState, SessionState'>> \in
               { <<"Configured", "Configured">>, <<"Configured", "Started">>,
                 <<"Configured", "Failed">>, <<"Started", "Started">>,
                 <<"Started", "Stopped">>, <<"Stopped", "Stopped">>,
                 <<"Failed", "Failed">> }
          /\ StreamRank(in_stream') >= StreamRank(in_stream)
          /\ StreamRank(out_stream') >= StreamRank(out_stream)
          /\ (in_stream = "playing" => in_stream' \in {"playing", "dropped"})
          /\ (out_stream = "playing" => out_stream' \in {"playing", "dropped"})
          /\ (ring = "split" => ring' = "split" /\ capacity' = capacity)]_vars
    /\ [](SessionState = "Started" =>
            /\ in_stream \in {"playing", "dropped"}
            /\ out_stream \in {"playing", "dropped"})
    /\ [](SessionState = "Stopped" =>
            in_stream = "dropped" /\ out_stream = "dropped")
    /\ []((in_stream # "none" \/ out_stream # "none") => ring = "split")

\* The session went through Started and has stopped.
C10_Witness ==
    /\ SessionState = "Stopped"
    /\ in_stream = "dropped" /\ out_stream = "dropped"
    /\ in_calls >= 1 /\ out_calls >= 1

(* ---------------------------------------------------------------------- *)
(* C11                                                                    *)
(* ---------------------------------------------------------------------- *)

\* The attempts of the k-th invocation in a log.
BlockOf(log, k) == SubSeq(log, ((k - 1) * BlockLen) + 1, k * BlockLen)

\* The invocations among the first n whose block has a failed attempt.
FailedBlocks(log, n) == { k \in 1..n : ~NoFailure(BlockOf(log, k)) }

\* A step in which an attempt of a callback fails.
AttemptFailed(log, newLog) ==
    Len(newLog) = Len(log) + 1 /\ ~newLog[Len(newLog)].ok

\* C11: the overflow diagnostics written are one for each completed capture
\* invocation whose block had at least one failed push and none for any
\* other, and likewise the underflow diagnostics and failed pops; a
\* diagnostic is written only in the step that ends an invocation, after all
\* samples of the block were processed; and a failed push or pop leaves the
\* invocation in its loop, one sample further, and the controller and the
\* streams as they were.
C11_OneDiagnosticPerFailedBlock ==
    /\ [](/\ Len(inLog) = (InputCallsDone * BlockLen) + in_idx
          /\ Len(outLog) = (OutputCallsDone * BlockLen) + out_idx
          /\ overflow_reports = Cardinality(FailedBlocks(inLog, InputCallsDone))
          /\ underflow_reports =
                Cardinality(FailedBlocks(outLog, OutputCallsDone)))
    /\ [][/\ overflow_reports' # overflow_reports =>
               /\ in_pc = "loop" /\ in_idx = BlockLen /\ in_pc' = "idle"
               /\ overflow_reports' = overflow_reports + 1
          /\ underflow_reports' # underflow_reports =>
               /\ out_pc = "loop" /\ out_idx = BlockLen /\ out_pc' = "idle"
               /\ underflow_reports' = underflow_reports + 1
          /\ AttemptFailed(inLog, inLog') =>
               /\ in_pc' = "loop" /\ in_idx' = in_idx + 1
               /\ UNCHANGED <<pc, in_stream, out_stream>>
          /\ AttemptFailed(outLog, outLog') =>
               /\ out_pc' = "loop" /\ out_idx' = out_idx + 1
               /\ UNCHANGED <<pc, in_stream, out_stream>>]_vars

\* Both callbacks are between invocations; each has reported a failed block
\* once and completed another block without a report, and more pushes have
\* failed than overflow diagnostics were written.
C11_Witness ==
    /\ in_pc = "idle" /\ out_pc = "idle"
    /\ overflow_reports >= 1 /\ overflow_reports < in_calls
    /\ underflow_reports >= 1 /\ underflow_reports < out_calls
    /\ Cardinality({ i \in 1..Len(inLog) : ~inLog[i].ok }) > overflow_reports

(* ---------------------------------------------------------------------- *)
(* C12                                                                    *)
(* ---------------------------------------------------------------------- *)

\* The accepted attempts of a sequence of attempts come before all others.
AcceptedIsPrefix(attempts) ==
    \A i, j \in 1..Len(attempts) :
       (i < j /\ attempts[j].ok) => attempts[i].ok

\* The push attempts made so far by the running capture invocation.
CurrentBlock == SubSeq(inLog, (Len(inLog) - in_idx) + 1, Len(inLog))

\* C12 as stated: in every capture invocation, also one the playback
\* callback pops during, the accepted samples form a prefix of the block.
C12_AcceptedPrefixAsStated ==
    \A k \in 1..InputCallsDone : AcceptedIsPrefix(BlockOf(inLog, k))

\* C12: a capture invocation attempts a push for every sample of its block,
\* in order, also after a push has failed, and returns only when the whole
\* block was tried; a sample is accepted exactly when the buffer has a free
\* slot at its push; and as long as no pop has succeeded since the first
\* failed push of the invocation, the accepted samples form a prefix of the
\* block.
C12_PushesEverySample ==
    /\ [](in_pc = "loop" =>
            /\ Len(in_data) = BlockLen
            /\ \A j \in 1..in_idx : CurrentBlock[j].s = in_data[j]
            /\ in_idx < BlockLen => ENABLED InputPush
            /\ ~room_made => AcceptedIsPrefix(CurrentBlock))
    /\ [][/\ (in_pc = "loop" /\ in_pc' = "idle") => in_idx = BlockLen
          /\ PushAttempted =>
               /\ inLog'[Len(inLog')].ok = (Len(buf) < capacity)
               /\ inLog'[Len(inLog')].s = in_data[in_idx + 1]
               /\ in_idx' = in_idx + 1]_vars

\* In the running capture invocation a push failed, the playback callback
\* then popped a sample, and the next push of the same block was accepted.
C12_Witness ==
    /\ in_pc = "loop"
    /\ in_idx >= 2
    /\ room_made
    /\ ~CurrentBlock[in_idx - 1].ok
    /\ CurrentBlock[in_idx].ok

(* ---------------------------------------------------------------------- *)
(* C13                                                                    *)
(* ---------------------------------------------------------------------- *)

C14_OneProducerOneConsumer ==
    /\ [](pc = "prefill" =>
            /\ in_stream = "none" /\ out_stream = "none"
            /\ in_pc = "idle" /\ out_pc = "idle"
            /\ inLog = <<>> /\ outLog = <<>>)
    /\ []((in_stream # "none" \/ out_stream # "none") =>
            prefill_i = latency_samples)
    /\ [][buf' # buf =>
            \/ /\ pc = "prefill" /\ pc' = "prefill"
               /\ prefill_i' = prefill_i + 1
               /\ buf' = Append(buf, 0)
               /\ UNCHANGED <<inLog, outLog>>
            \/ /\ in_stream = "playing" /\ in_pc = "loop"
               /\ PushAttempted
               /\ buf' = Append(buf, in_data[in_idx + 1])
               /\ UNCHANGED <<pc, prefill_i, outLog>>
            \/ /\ out_stream = "playing" /\ out_pc = "loop"
               /\ PopAttempted
               /\ buf' = Tail(buf)
               /\ UNCHANGED <<pc, prefill_i, inLog>>]_vars

\* Both streams play, both callbacks are in the middle of a block, and a
\* captured sample has gone through the ring.
C14_Witness ==
    /\ pc = "sleep"
    /\ in_stream = "playing" /\ out_stream = "playing"
    /\ in_pc = "loop" /\ in_idx > 0
    /\ out_pc = "loop" /\ out_idx > 0
    /\ prefill_i = latency_samples /\ latency_samples > 0
    /\ Len(Pushed) > 0
    /\ Len(Popped) > latency_samples

(* ---------------------------------------------------------------------- *)
(* C15                                                                    *)
(* ---------------------------------------------------------------------- *)

\* The streams that exist and the stage of main after each build or start
\* that succeeds, and after one that fails.
BuildOrStartOutcome ==
    /\ pc = "build_input" =>
         \/ pc' = "build_output" /\ in_stream' = "built" /\ out_stream' = "none"
         \/ pc' = "failed" /\ in_stream' = "none" /\ out_stream' = "none"
    /\ pc = "build_output" =>
         \/ pc' = "play_input" /\ in_stream' = "built" /\ out_stream' = "built"
         \/ pc' = "failed" /\ in_stream' = "dropped" /\ out_stream' = "none"
    /\ pc = "play_input" =>
         \/ pc' = "play_output" /\ in_stream' = "playing"
            /\ out_stream' = "built"
         \/ pc' = "failed" /\ in_stream' = "dropped" /\ out_stream' = "dropped"
    /\ pc = "play_output" =>
         \/ pc' = "sleep" /\ in_stream' = "playing" /\ out_stream' = "playing"
         \/ pc' = "unwind" /\ in_stream' = "playing" /\ out_stream' = "dropped"
    /\ pc = "unwind" =>
         pc' = "failed" /\ in_stream' = "dropped" /\ out_stream' = "dropped"

\* C15: a build or start that fails takes main to its error return and
\* nowhere else; when main has returned the error no stream is built or
\* playing, no callback is running, and nothing happens any more: no
\* callback is invoked, no error is reported, no other configuration is
\* tried.  When the start of the output stream fails with the input stream
\* playing, main drops the input stream on its way out.
C15_FailedStartTearsDown ==
    /\ [](pc = "failed" =>
            /\ in_stream \in {"none", "dropped"}
            /\ out_stream \in {"none", "dropped"}
            /\ in_pc = "idle" /\ out_pc = "idle")
    /\ [](pc = "unwind" => in_stream = "playing" /\ out_stream = "dropped")
    /\ [][pc # "failed" /\ (pc' # pc => BuildOrStartOutcome)]_vars

\* The start of the output stream failed after the capture callback had
\* run; main has returned the error and the input stream is dropped.
C15_Witness ==
    /\ pc = "failed"
    /\ in_stream = "dropped" /\ out_stream = "dropped"
    /\ in_calls >= 1 /\ Len(inLog) = in_calls * BlockLen
    /\ out_calls = 0

(* ---------------------------------------------------------------------- *)
(* C16                                                                    *)
(* ---------------------------------------------------------------------- *)

\* The number of samples in the ring.
Occupancy == Len(buf)

\* C16: in every state the occupancy is at least 0 and at most the
\* capacity; it equals the pre-fill pushes made so far plus the successful
\* pushes of the capture callback minus the successful pops, and the
\* pre-fill pushes are latency_samples from the end of the pre-fill on; and
\* the capacity of the ring, once made, never changes.
C16_OccupancyAccounting ==
    /\ [](Occupancy >= 0 /\ Occupancy <= capacity)
    /\ [](Occupancy = (prefill_i + Len(Pushed)) - Len(Popped))
    /\ [](PrefillDone =>
            /\ prefill_i = latency_samples
            /\ Occupancy = (latency_samples + Len(Pushed)) - Len(Popped))
    /\ [][ring = "split" => ring' = "split" /\ capacity' = capacity]_vars

\* After pushes and pops have succeeded and failed, the ring is neither
\* empty nor full.
C16_Witness ==
    /\ PrefillDone
    /\ Len(Pushed) > 0 /\ ~NoFailure(inLog)
    /\ Len(Popped) > 0 /\ ~NoFailure(outLog)
    /\ Occupancy > 0 /\ Occupancy < capacity
    /\ Occupancy # latency_samples

(* ---------------------------------------------------------------------- *)
(* C17                                                                    *)
(* ---------------------------------------------------------------------- *)

\* A step in which a diagnostic is written or an attempt fails.
TransientError ==
    \/ overflow_reports' # overflow_reports
    \/ underflow_reports' # underflow_reports
    \/ stream_errors' # stream_errors
    \/ AttemptFailed(inLog, inLog')
    \/ AttemptFailed(outLog, outLog')

\* C17: from every state in which both streams have been started the
\* session reaches Stopped; a step in which a push or pop fails or a
\* diagnostic or stream error is written leaves main and both streams as
\* they were; and a started session goes nowhere but to Stopped.
C17_StartedSessionStops ==
    /\ (pc = "sleep" /\ in_stream = "playing" /\ out_stream = "playing")
          ~> Stopped
    /\ [][TransientError => UNCHANGED <<pc, in_stream, out_stream>>]_vars
    /\ [][SessionState = "Started" =>
            SessionState' \in {"Started", "Stopped"}]_vars

\* The session has stopped after an overflow, an underflow and a stream
\* error were reported.
C17_Witness ==
    /\ Stopped
    /\ in_stream = "dropped" /\ out_stream = "dropped"
    /\ overflow_reports >= 1
    /\ underflow_reports >= 1
    /\ stream_errors >= 1
    /\ in_calls >= 2 /\ out_calls >= 2

(* ---------------------------------------------------------------------- *)
(* C18                                                                    *)
(* ---------------------------------------------------------------------- *)

\* C18: the ring is made with twice latency_samples slots, so in the
\* pre-fill loop, which has pushed prefill_i zeros, every push still to be
\* made finds a free slot, and no step of the loop panics; with
\* latency_samples = 0 the loop pushes nothing.
C18_PrefillFits ==
    /\ [](ring = "split" => capacity = 2 * latency_samples)
    /\ [](pc = "prefill" =>
            /\ Len(buf) = prefill_i
            /\ prefill_i <= latency_samples
            /\ prefill_i < latency_samples =>
                 Len(buf) < capacity /\ Push(buf, capacity, 0).ok)
    /\ [][pc = "prefill" =>
            /\ pc' \in {"prefill", "build_input"}
            /\ pc' = "build_input" => prefill_i = latency_samples
            /\ pc' = "prefill" => buf' = Append(buf, 0)]_vars

\* The pre-fill loop has made its last push and the ring is half full.
C18_Witness ==
    /\ pc = "prefill"
    /\ latency_samples > 0
    /\ prefill_i = latency_samples
    /\ Len(buf) = latency_samples
    /\ capacity - Len(buf) = latency_samples

(* ---------------------------------------------------------------------- *)
(* C19                                                                    *)
(* ---------------------------------------------------------------------- *)

\* The whole frames of latency at each example rate: latency_frames as usize.
ExampleFrames ==
    [r \in ExampleSampleRates |-> F32AsUsize(latency_frames(r))]

\* C19: with latency_ms = 150, channels = 2 and a sample rate of 48000 the
\* latency is 7200 whole frames, latency_samples is 14400, the ring is made
\* with a capacity of 28800, and when the pre-fill loop is done it has made
\* 14400 pushes and the ring holds 14400 zeros.
C19_SizingExample ==
    (latency_ms = 150 /\ channels = 2 /\ sample_rate = 48000) =>
       /\ ExampleFrames[sample_rate] = 7200
       /\ ring = "split" => latency_samples = 14400 /\ capacity = 28800
       /\ pc = "prefill" => Len(buf) = prefill_i /\ prefill_i <= 14400
       /\ PrefillDone => prefill_i = 14400 /\ buf = Zeros(14400)

\* At 48000 Hz the ring has been made with its 28800 slots and the pre-fill
\* loop has pushed the zeros of its first frames.
C19_Witness ==
    /\ latency_ms = 150 /\ channels = 2 /\ sample_rate = 48000
    /\ sample_format = SampleFormatName
    /\ pc = "prefill"
    /\ latency_samples = 14400
    /\ capacity = 28800
    /\ prefill_i = 3 * channels
    /\ buf = Zeros(prefill_i)

=============================================================================
